---- MODULE Spec2Model ----
(***************************************************************************)
(* Model of backend/main.py: the FastAPI weather service.                  *)
(*                                                                         *)
(* State: the module-level dict weather_storage, and for every POST        *)
(* /weather request in the system its position in create_weather_request   *)
(* (the coroutine suspends at "await client.get" and again when the        *)
(* "async with" block closes the client), its locals and the HTTP reply it *)
(* produced.  The four GET handlers contain no await and run atomically on *)
(* the event loop; the reply of the latest one is kept in lastRead.        *)
(***************************************************************************)
EXTENDS Naturals, Sequences, FiniteSets, TLC

VARIABLES
    weather_storage,  \* the module-level dict: uuid -> combined_data
    pc,               \* where each POST request is in create_weather_request
    body,             \* the JSON body each POST request carried
    response,         \* what "await client.get" produced for the request
    result,           \* the HTTP reply the handler produced
    generated,        \* the values uuid.uuid4() has returned so far
    pendingAtResume,  \* the requests suspended at the await when this one resumed
    lastRead          \* the latest GET request and its reply

vars == <<weather_storage, pc, body, response, result, generated,
          pendingAtResume, lastRead>>

(***************************************************************************)
(* Bounds.                                                                 *)
(***************************************************************************)
\* number of POST /weather requests in a run
MaxReq == 2

Reqs == 1 .. MaxReq
\* the values str(uuid.uuid4()) can take; one is consumed per request at most
UUIDs == 1 .. MaxReq

(***************************************************************************)
(* JSON values (what response.json() and the request body are made of).    *)
(* Strings are sequences of characters so that Python's substring test is  *)
(* computable.                                                             *)
(***************************************************************************)
JNull == [t |-> "null"]
JStr(cs) == [t |-> "str", chars |-> cs]
JList(xs) == [t |-> "list", items |-> xs]
JDict(f) == [t |-> "dict", fields |-> f]

\* Python values returned or raised by an expression
Value(v) == [ok |-> TRUE, val |-> v]
Raise(cls) == [ok |-> FALSE, exc |-> cls]

\* needle is a contiguous subsequence of hay  (str.__contains__)
IsSubstring(needle, hay) ==
    \E i \in 0 .. Len(hay) :
        /\ i + Len(needle) <= Len(hay)
        /\ \A j \in 1 .. Len(needle) : hay[i + j] = needle[j]

\* the characters of the str literals the handlers use
Chars(key) ==
    CASE key = "error" -> <<"e", "r", "r", "o", "r">>
      [] OTHER -> <<>>

\* the Python expression  key in v  for a str key: key membership for a
\* dict, element membership for a list, substring test for a str, TypeError
\* for a value that is not a container (None, numbers, booleans)
In(key, v) ==
    CASE v.t = "dict" -> Value(key \in DOMAIN v.fields)
      [] v.t = "list" ->
           Value(\E i \in 1 .. Len(v.items) : v.items[i] = JStr(Chars(key)))
      [] v.t = "str" -> Value(IsSubstring(Chars(key), v.chars))
      [] OTHER -> Raise("TypeError")

\* the Python expression  v[key]  for a str key; key is a TLA+ string naming
\* the dict key
GetItem(v, key) ==
    CASE v.t = "dict" -> IF key \in DOMAIN v.fields
                         THEN Value(v.fields[key])
                         ELSE Raise("KeyError")
      [] OTHER -> Raise("TypeError")

(***************************************************************************)
(* Inputs: the JSON bodies clients post and what the provider can answer.  *)
(***************************************************************************)
Paris == JStr(<<"P">>)
Tokyo == JStr(<<"T">>)
Jan1 == JStr(<<"1">>)
Jan2 == JStr(<<"2">>)
Trip == JStr(<<"t">>)
EmptyStr == JStr(<<>>)

\* POST bodies that pass validation: notes given, omitted, or null
Bodies ==
    { [date |-> Jan1, location |-> Paris, notes |-> Trip],
      [date |-> Jan2, location |-> Tokyo],
      [date |-> Jan1, location |-> Tokyo, notes |-> JNull] }

\* class WeatherRequest(BaseModel): notes defaults to "" when omitted, an
\* explicit null stays None
WeatherRequest(b) ==
    [date |-> b.date,
     location |-> b.location,
     notes |-> IF "notes" \in DOMAIN b THEN b.notes ELSE EmptyStr]

Astro == JDict([sunrise |-> JStr(<<"6">>)])
AirQuality == JDict([co |-> JStr(<<"9">>)])
Place(loc) == JDict([name |-> loc])
ErrorInfo == JDict([code |-> JStr(<<"6", "1", "5">>)])

\* parsed provider bodies for a query
ProviderJson(loc) ==
    { JDict([location |-> Place(loc),
             current |-> JDict([astro |-> Astro, air_quality |-> AirQuality])]),
      JDict([location |-> Place(loc), current |-> JDict([astro |-> Astro])]),
      JDict([current |-> JDict([air_quality |-> AirQuality])]),
      JDict([location |-> Place(loc)]),
      JDict([location |-> Place(loc), current |-> JStr(<<"n">>)]),
      JDict([success |-> JNull, error |-> ErrorInfo]),
      JNull,
      JList(<<>>),
      JStr(<<"a", "n", " ", "e", "r", "r", "o", "r">>) }

\* what "await client.get(...)" can produce: httpx.RequestError, or a
\* Response with a status code and content (JSON text or not)
ProviderOutcomes(loc) ==
    { [kind |-> "RequestError"] }
    \cup { [kind |-> "Response", status_code |-> 200, json |-> j] :
              j \in ProviderJson(loc) }
    \cup { [kind |-> "Response", status_code |-> 200, garbage |-> TRUE] }
    \cup { [kind |-> "Response", status_code |-> 503,
            json |-> JDict([location |-> Place(loc)])],
           [kind |-> "Response", status_code |-> 401,
            json |-> JDict([success |-> JNull, error |-> ErrorInfo])] }

\* response.json()
Json(resp) ==
    IF "json" \in DOMAIN resp THEN Value(resp.json) ELSE Raise("JSONDecodeError")

(***************************************************************************)
(* HTTP replies.                                                           *)
(***************************************************************************)
HTTPException(status_code, detail) == [status |-> status_code, detail |-> detail]
Ok(content) == [status |-> 200, content |-> content]
\* class WeatherResponse(BaseModel)
WeatherResponse(id) == Ok([id |-> id])

NoReply == [none |-> TRUE]
NoResponse == [kind |-> "none"]
NoBody == [none |-> TRUE]
NoRead == [endpoint |-> "none"]

(***************************************************************************)
(* POST /weather: create_weather_request.                                  *)
(***************************************************************************)
Returned(reply, store) == [returned |-> TRUE, reply |-> reply, store |-> store]
Raised(exc) == [returned |-> FALSE, exc |-> exc]

\* combined_data with the date and location values exchanged
CombinedData_Swapped(weather_id, request, weather_data) ==
    [k \in {"weather id", "date", "location", "notes", "weather_api_response"} |->
        CASE k = "weather id" -> weather_id
          [] k = "date" -> request.location
          [] k = "location" -> request.date
          [] k = "notes" -> request.notes
          [] OTHER -> weather_data]

\* combined_data, lines 63-69
CombinedData(weather_id, request, weather_data) ==
    [k \in {"weather id", "date", "location", "notes", "weather_api_response"} |->
        CASE k = "weather id" -> weather_id
          [] k = "date" -> request.date
          [] k = "location" -> request.location
          [] k = "notes" -> request.notes
          [] OTHER -> weather_data]

\* the record filed under the number of records instead of its identifier
Put_ByCount(store, weather_id, combined_data) ==
    [k \in DOMAIN store \cup {Cardinality(DOMAIN store) + 1} |->
        IF k = Cardinality(DOMAIN store) + 1 THEN combined_data ELSE store[k]]

\* weather_storage = {weather_id: combined_data}
Put_Replace(store, weather_id, combined_data) ==
    [k \in {weather_id} |-> combined_data]

\* weather_storage[weather_id] = combined_data
Put(store, weather_id, combined_data) ==
    [k \in DOMAIN store \cup {weather_id} |->
        IF k = weather_id THEN combined_data ELSE store[k]]

\* the statements after json() inside the try block, lines 58-72
StoreAndReturn(request, weather_data, weather_id, store) ==
    LET has == In("error", weather_data) IN
    IF ~has.ok THEN Raised([cls |-> has.exc])
    ELSE IF has.val
    THEN Raised([cls |-> "HTTPException",
                 reply |-> HTTPException(400, "WeatherStack API Error")])
    ELSE Returned(WeatherResponse(weather_id),
                  Put(store, weather_id,
                      CombinedData(weather_id, request, weather_data)))

\* the try block from the point the awaited call completes, lines 55-72
TryBlock(request, outcome, weather_id, store) ==
    IF outcome.kind = "RequestError" THEN Raised([cls |-> "RequestError"])
    ELSE LET parsed == Json(outcome) IN
         IF ~parsed.ok THEN Raised([cls |-> parsed.exc])
         ELSE StoreAndReturn(request, parsed.val, weather_id, store)

\* the except clauses in order, lines 74-81; HTTPException, JSONDecodeError
\* and TypeError are subclasses of Exception and of neither httpx class
ExceptClauses(exc) ==
    CASE exc.cls = "RequestError" -> HTTPException(502, "Network Error")
      [] exc.cls = "HTTPStatusError" ->
           HTTPException(exc.status_code, "Error from WeatherStackAPI")
      [] OTHER -> HTTPException(500, "Internal Server Errors")

\* the record written before the error check, so a raise leaves it behind
CreateOutcome_PartialWrite(request, outcome, weather_id, store) ==
    LET t == TryBlock(request, outcome, weather_id, store) IN
    IF t.returned THEN [reply |-> t.reply, store |-> t.store]
    ELSE [reply |-> ExceptClauses(t.exc),
          store |-> IF t.exc.cls = "HTTPException"
                    THEN Put(store, weather_id,
                             CombinedData(weather_id, request, outcome.json))
                    ELSE store]

\* the reply and the store the handler leaves, given what the await produced
CreateOutcome(request, outcome, weather_id, store) ==
    LET t == TryBlock(request, outcome, weather_id, store) IN
    IF t.returned THEN [reply |-> t.reply, store |-> t.store]
    ELSE [reply |-> ExceptClauses(t.exc), store |-> store]

\* an identifier source that can repeat a value
uuid4_Reused(used) == UUIDs

\* str(uuid.uuid4()): any value it has not returned before
uuid4(used) == UUIDs \ used

\* uuid.uuid4() is reached only when json() returned
ReachesUuid(outcome) == outcome.kind = "Response" /\ Json(outcome).ok

\* a blocking provider call: the handler keeps the loop while it waits
HoldsLoop_Blocking(p) == p = "awaiting"

\* The handlers are coroutines on one event loop: a handler holds the loop
\* only while it runs between suspension points.  Every position a create
\* request rests at is an await ("await client.get", and the client's
\* __aexit__ of the "async with"), so none of them holds the loop.
HoldsLoop(p) == p \notin {"idle", "awaiting", "closing", "done"}

LoopFree == \A q \in DOMAIN pc : ~HoldsLoop(pc[q])

\* a client posts; the handler runs to "await client.get(...)" and suspends.
\* Requests are numbered in the order they arrive.
Submit(r) ==
    /\ LoopFree
    /\ pc[r] = "idle"
    /\ \A q \in Reqs : q < r => pc[q] # "idle"
    /\ \E b \in Bodies : body' = [body EXCEPT ![r] = b]
    /\ pc' = [pc EXCEPT ![r] = "awaiting"]
    /\ UNCHANGED <<weather_storage, response, result, generated,
                   pendingAtResume, lastRead>>

\* the provider call completes; the handler runs from line 55 to its return
\* or raise and suspends again in the client's __aexit__
Resume(r) ==
    /\ \A q \in Reqs \ {r} : ~HoldsLoop(pc[q])
    /\ pc[r] = "awaiting"
    /\ \E o \in ProviderOutcomes(WeatherRequest(body[r]).location) :
         \E id \in uuid4(generated) :
            LET out == CreateOutcome(WeatherRequest(body[r]), o, id,
                                     weather_storage) IN
            /\ response' = [response EXCEPT ![r] = o]
            /\ result' = [result EXCEPT ![r] = out.reply]
            /\ weather_storage' = out.store
            /\ generated' = IF ReachesUuid(o) THEN generated \cup {id}
                            ELSE generated
    /\ pendingAtResume' = [pendingAtResume EXCEPT
                              ![r] = {q \in Reqs \ {r} : pc[q] = "awaiting"}]
    /\ pc' = [pc EXCEPT ![r] = "closing"]
    /\ UNCHANGED <<body, lastRead>>

\* the client is closed and the reply goes out to the caller
Respond(r) ==
    /\ \A q \in Reqs \ {r} : ~HoldsLoop(pc[q])
    /\ pc[r] = "closing"
    /\ pc' = [pc EXCEPT ![r] = "done"]
    /\ UNCHANGED <<weather_storage, body, response, result, generated,
                   pendingAtResume, lastRead>>

(***************************************************************************)
(* The four GET handlers.                                                  *)
(***************************************************************************)
NotFound == HTTPException(404, "Weather data not found")
NoData == HTTPException(404, "No data available")

\* "except KeyError" in place of "except Exception"
SubView_KeyErrorOnly(weather_id, store, path) ==
    IF weather_id \notin DOMAIN store THEN NotFound
    ELSE LET data == store[weather_id]
             got == GetItem(data["weather_api_response"], path[1])
             sub == IF got.ok /\ Len(path) = 2
                    THEN GetItem(got.val, path[2]) ELSE got IN
         IF sub.ok THEN Ok(sub.val)
         ELSE IF sub.exc = "KeyError" THEN NoData
         ELSE HTTPException(500, "Internal Server Error")

\* the membership test folded into the try block
SubView_LookupInsideTry(weather_id, store, path) ==
    IF weather_id \notin DOMAIN store THEN NoData
    ELSE LET data == store[weather_id]
             got == GetItem(data["weather_api_response"], path[1])
             sub == IF got.ok /\ Len(path) = 2
                    THEN GetItem(got.val, path[2]) ELSE got IN
         IF sub.ok THEN Ok(sub.val) ELSE NoData

\* data[k1][k2]... : the first failing subscript raises
Traverse(v, path) ==
    LET first == GetItem(v, path[1]) IN
    IF Len(path) = 1 \/ ~first.ok THEN first
    ELSE GetItem(first.val, path[2])

SubView(weather_id, store, path) ==
    IF weather_id \notin DOMAIN store THEN NotFound
    ELSE LET data == store[weather_id]
             got == Traverse(data["weather_api_response"], path) IN
         IF got.ok THEN Ok(got.val) ELSE NoData

get_astronomy_data(weather_id, store) ==
    SubView(weather_id, store, <<"current", "astro">>)

get_precise_location(weather_id, store) ==
    SubView(weather_id, store, <<"location">>)

get_air_quality_data(weather_id, store) ==
    SubView(weather_id, store, <<"current", "air_quality">>)

get_weather_data(weather_id, store) ==
    IF weather_id \notin DOMAIN store THEN NotFound
    ELSE Ok(store[weather_id])

Read(endpoint, weather_id, reply) ==
    /\ LoopFree
    /\ lastRead' = [endpoint |-> endpoint, weather_id |-> weather_id,
                    reply |-> reply]
    /\ UNCHANGED <<weather_storage, pc, body, response, result, generated,
                   pendingAtResume>>

GetAstronomy ==
    \E id \in UUIDs : Read("astro", id, get_astronomy_data(id, weather_storage))

GetLocation ==
    \E id \in UUIDs : Read("location", id, get_precise_location(id, weather_storage))

GetAirQuality ==
    \E id \in UUIDs :
        Read("air-quality", id, get_air_quality_data(id, weather_storage))

GetWeather ==
    \E id \in UUIDs : Read("weather", id, get_weather_data(id, weather_storage))

(***************************************************************************)
(* The system.                                                             *)
(***************************************************************************)
Init ==
    /\ weather_storage = [k \in {} |-> NoBody]
    /\ pc = [r \in Reqs |-> "idle"]
    /\ body = [r \in Reqs |-> NoBody]
    /\ response = [r \in Reqs |-> NoResponse]
    /\ result = [r \in Reqs |-> NoReply]
    /\ generated = {}
    /\ pendingAtResume = [r \in Reqs |-> {}]
    /\ lastRead = NoRead

Next ==
    \/ \E r \in Reqs : Submit(r)
    \/ \E r \in Reqs : Resume(r)
    \/ \E r \in Reqs : Respond(r)
    \/ GetAstronomy
    \/ GetLocation
    \/ GetAirQuality
    \/ GetWeather

Spec == Init /\ [][Next]_vars

(***************************************************************************)
(* Vocabulary of the properties.                                           *)
(***************************************************************************)
\* the handler of each GET route
Route(endpoint, weather_id, store) ==
    CASE endpoint = "astro" -> get_astronomy_data(weather_id, store)
      [] endpoint = "location" -> get_precise_location(weather_id, store)
      [] endpoint = "air-quality" -> get_air_quality_data(weather_id, store)
      [] OTHER -> get_weather_data(weather_id, store)

Endpoints == {"astro", "location", "air-quality", "weather"}

Resumed(r) == pc[r] \in {"closing", "done"}
\* the request has answered its caller with an identifier
ReturnedId(r) == pc[r] = "done" /\ "content" \in DOMAIN result[r]
IdOf(r) == result[r].content.id
\* the request has produced an error reply
Failed(r) == Resumed(r) /\ "detail" \in DOMAIN result[r]

\* the values the client submitted (an omitted notes means the default "")
SubmittedNotes(r) == IF "notes" \in DOMAIN body[r] THEN body[r].notes ELSE EmptyStr

\* the provider answered this request with a parsed JSON object
GotObject(r) ==
    /\ Resumed(r)
    /\ response[r].kind = "Response"
    /\ "json" \in DOMAIN response[r]
    /\ response[r].json.t = "dict"

HasErrorKey(r) == "error" \in DOMAIN response[r].json.fields

\* a GET request was served in this step
ReadStep == lastRead' # lastRead

\* a POST handler resumed from the provider call in this step
ResumeStep(r) == pc[r] = "awaiting" /\ pc'[r] = "closing"

(***************************************************************************)
(* C1: once a create request has returned an identifier, the full-record   *)
(* endpoint called with that identifier returns, in every later state, a   *)
(* record whose date, location and notes are the submitted values.         *)
(***************************************************************************)
C1_ReadBack ==
    \A r \in Reqs :
        ReturnedId(r) =>
            LET reply == get_weather_data(IdOf(r), weather_storage) IN
            /\ reply.status = 200
            /\ "content" \in DOMAIN reply
            /\ reply.content["date"] = body[r].date
            /\ reply.content["location"] = body[r].location
            /\ reply.content["notes"] = SubmittedNotes(r)

\* a GET /weather/{id} served after its create returned and after another
\* create request has also completed
C1_Witness ==
    \E r \in Reqs :
        /\ ReturnedId(r)
        /\ \E q \in Reqs \ {r} : pc[q] = "done"
        /\ lastRead.endpoint = "weather"
        /\ lastRead.weather_id = IdOf(r)
        /\ lastRead.reply.status = 200
        /\ lastRead.reply.content["location"] = body[r].location
        /\ "notes" \notin DOMAIN body[r]

(***************************************************************************)
(* C2: when the parsed provider body has the key "error", the caller of    *)
(* create_weather_request receives status 400.                             *)
(***************************************************************************)
C2_ProviderRejected400 ==
    \A r \in Reqs :
        (GotObject(r) /\ HasErrorKey(r)) => result[r].status = 400

(***************************************************************************)
(* C3: when the provider call completes with a non-success HTTP status,    *)
(* the caller receives that status and nothing is stored.                  *)
(***************************************************************************)
C3_UpstreamStatus ==
    \A r \in Reqs :
        (Resumed(r) /\ response[r].kind = "Response"
            /\ response[r].status_code \notin 200 .. 299)
        => /\ result[r].status = response[r].status_code
           /\ "content" \notin DOMAIN result[r]

(***************************************************************************)
(* C4: a create request that ends in an error reply leaves weather_storage *)
(* as it was and returns no identifier; the store changes only in a step   *)
(* of a create request that returns the identifier of the one key added.   *)
(***************************************************************************)
C4_AllOrNothing ==
    [][ /\ \A r \in Reqs :
             (ResumeStep(r) /\ "detail" \in DOMAIN result'[r])
             => /\ weather_storage' = weather_storage
                /\ "content" \notin DOMAIN result'[r]
        /\ weather_storage' # weather_storage
             => \E r \in Reqs :
                  /\ ResumeStep(r)
                  /\ "content" \in DOMAIN result'[r]
                  /\ result'[r].status = 200
                  /\ DOMAIN weather_storage' =
                        DOMAIN weather_storage \cup {result'[r].content.id}
      ]_vars

\* a failed create request next to a stored record
C4_Witness ==
    \E r \in Reqs :
        /\ Failed(r)
        /\ result[r].status = 500
        /\ GotObject(r) /\ HasErrorKey(r)
        /\ \E q \in Reqs \ {r} :
              /\ ReturnedId(q)
              /\ DOMAIN weather_storage = {IdOf(q)}

(***************************************************************************)
(* C8: every key of weather_storage maps to a record whose identifier      *)
(* field (the key "weather id" of combined_data) equals that key.          *)
(***************************************************************************)
C8_KeyIsRecordId ==
    \A k \in DOMAIN weather_storage : weather_storage[k]["weather id"] = k

C8_Witness ==
    /\ Cardinality(DOMAIN weather_storage) = MaxReq
    /\ \A k \in DOMAIN weather_storage : weather_storage[k]["weather id"] = k

(***************************************************************************)
(* C5: two create requests with different locations that were suspended at *)
(* the provider call at the same time, and that the provider both answers  *)
(* with an error-free object, both return an identifier; the identifiers   *)
(* differ and each retrieves its own request's date, location, notes and   *)
(* provider response.                                                      *)
(***************************************************************************)
Overlapped(r, q) == q \in pendingAtResume[r] \/ r \in pendingAtResume[q]

ProviderOk(r) ==
    GotObject(r) /\ ~HasErrorKey(r) /\ response[r].status_code = 200

OwnRecord(r) ==
    /\ "content" \in DOMAIN result[r]
    /\ result[r].status = 200
    /\ LET reply == get_weather_data(result[r].content.id, weather_storage) IN
       /\ reply.status = 200
       /\ "content" \in DOMAIN reply
       /\ reply.content["date"] = body[r].date
       /\ reply.content["location"] = body[r].location
       /\ reply.content["notes"] = SubmittedNotes(r)
       /\ reply.content["weather_api_response"] = response[r].json

C5_ConcurrentCreates ==
    \A r \in Reqs : \A q \in Reqs \ {r} :
        ( /\ Resumed(r) /\ Resumed(q)
          /\ Overlapped(r, q)
          /\ body[r].location # body[q].location
          /\ ProviderOk(r) /\ ProviderOk(q) )
        => /\ OwnRecord(r)
           /\ OwnRecord(q)
           /\ result[r].content.id # result[q].content.id

\* both were pending together, the later-submitted one resumed first, and
\* both have answered
C5_Witness ==
    \E r \in Reqs : \E q \in Reqs \ {r} :
        /\ r < q
        /\ r \in pendingAtResume[q]
        /\ body[r].location # body[q].location
        /\ ProviderOk(r) /\ ProviderOk(q)
        /\ ReturnedId(r) /\ ReturnedId(q)
        /\ IdOf(r) # IdOf(q)
        /\ weather_storage[IdOf(r)]["location"] = body[r].location
        /\ weather_storage[IdOf(q)]["location"] = body[q].location

(***************************************************************************)
(* C6: when the provider answers 200 with an error-free JSON object that   *)
(* lacks the astronomy, location or air-quality section, the create        *)
(* request succeeds and stores the record; the sub-view endpoint of every  *)
(* missing section then answers 404 "No data available" and the sub-view   *)
(* endpoint of every present section answers with that section.            *)
(***************************************************************************)
HasKey(j, k) == j.t = "dict" /\ k \in DOMAIN j.fields
HasAstro(j) == HasKey(j, "current") /\ HasKey(j.fields["current"], "astro")
HasAirQuality(j) ==
    HasKey(j, "current") /\ HasKey(j.fields["current"], "air_quality")
HasLocation(j) == HasKey(j, "location")

C6_MissingSections ==
    \A r \in Reqs :
        ( /\ ProviderOk(r)
          /\ LET j == response[r].json IN
             ~HasAstro(j) \/ ~HasLocation(j) \/ ~HasAirQuality(j) )
        => /\ "content" \in DOMAIN result[r]
           /\ result[r].status = 200
           /\ LET j == response[r].json
                  id == result[r].content.id
              IN
              /\ id \in DOMAIN weather_storage
              /\ weather_storage[id]["weather_api_response"] = j
              /\ get_astronomy_data(id, weather_storage) =
                    IF HasAstro(j)
                    THEN Ok(j.fields["current"].fields["astro"]) ELSE NoData
              /\ get_precise_location(id, weather_storage) =
                    IF HasLocation(j) THEN Ok(j.fields["location"]) ELSE NoData
              /\ get_air_quality_data(id, weather_storage) =
                    IF HasAirQuality(j)
                    THEN Ok(j.fields["current"].fields["air_quality"])
                    ELSE NoData

\* the astronomy view of a stored record was asked for and is unavailable,
\* while the record has a location section; "current" is there but is no
\* object
C6_Witness ==
    \E r \in Reqs :
        /\ ReturnedId(r)
        /\ ProviderOk(r)
        /\ HasLocation(response[r].json)
        /\ HasKey(response[r].json, "current")
        /\ ~HasAstro(response[r].json)
        /\ lastRead.endpoint = "astro"
        /\ lastRead.weather_id = IdOf(r)
        /\ lastRead.reply = NoData
        /\ get_precise_location(IdOf(r), weather_storage).status = 200

(***************************************************************************)
(* C7: in every reachable state each of the four GET handlers answers 404  *)
(* "Weather data not found" for an identifier that is not a key of         *)
(* weather_storage, and every GET request served for such an identifier    *)
(* gets that reply.                                                        *)
(***************************************************************************)
C7_UnknownIdNotFound ==
    /\ [](\A id \in UUIDs \ DOMAIN weather_storage : \A e \in Endpoints :
             Route(e, id, weather_storage) = NotFound)
    /\ [][(ReadStep /\ lastRead'.weather_id \notin DOMAIN weather_storage)
             => lastRead'.reply = NotFound]_vars

\* a sub-view was asked for an identifier that is not stored, while another
\* record is
C7_Witness ==
    /\ lastRead.endpoint = "air-quality"
    /\ lastRead.weather_id \notin DOMAIN weather_storage
    /\ lastRead.reply = NotFound
    /\ weather_storage # [k \in {} |-> NoBody]

(***************************************************************************)
(* C9: a key of weather_storage stays, with the same record, in every      *)
(* later state; GET requests leave the store unchanged; a create request   *)
(* only adds a key that was not present.                                   *)
(***************************************************************************)
C9_RecordsPermanent ==
    [][ /\ \A k \in DOMAIN weather_storage :
             /\ k \in DOMAIN weather_storage'
             /\ weather_storage'[k] = weather_storage[k]
        /\ ReadStep => weather_storage' = weather_storage
        /\ \A r \in Reqs :
             (ResumeStep(r) /\ weather_storage' # weather_storage)
             => \E id \in UUIDs \ DOMAIN weather_storage :
                   DOMAIN weather_storage' = DOMAIN weather_storage \cup {id}
      ]_vars

\* a second record was added next to a first one, which was read since
C9_Witness ==
    /\ Cardinality(DOMAIN weather_storage) = 2
    /\ \A r \in Reqs : r <= 2 => ReturnedId(r)
    /\ lastRead.endpoint = "weather"
    /\ lastRead.reply.status = 200
    /\ lastRead.reply.content = weather_storage[lastRead.weather_id]

(***************************************************************************)
(* C10: while a create request is suspended at the provider call, GET      *)
(* requests can be served and other create requests can start, resume and  *)
(* answer; and every stored record belongs to a request that has resumed   *)
(* with an error-free answer, so the pending request has none.             *)
(***************************************************************************)
C10_PendingDoesNotBlock ==
    \A r \in Reqs :
        pc[r] = "awaiting" =>
            /\ \A k \in DOMAIN weather_storage :
                  \E q \in Reqs \ {r} :
                     /\ Resumed(q)
                     /\ "content" \in DOMAIN result[q]
                     /\ result[q].content.id = k
            /\ ENABLED GetAstronomy
            /\ ENABLED GetLocation
            /\ ENABLED GetAirQuality
            /\ ENABLED GetWeather
            /\ \A q \in Reqs \ {r} :
                  /\ (pc[q] = "idle" /\ \A p \in Reqs : p < q => pc[p] # "idle")
                        => ENABLED Submit(q)
                  /\ pc[q] = "awaiting" => ENABLED Resume(q)
                  /\ pc[q] = "closing" => ENABLED Respond(q)

\* a later request was submitted, stored its record, answered and was read
\* back while the earlier one is still pending
C10_Witness ==
    \E r \in Reqs : \E q \in Reqs :
        /\ r < q
        /\ pc[r] = "awaiting"
        /\ ReturnedId(q)
        /\ lastRead.endpoint = "weather"
        /\ lastRead.weather_id = IdOf(q)
        /\ lastRead.reply = Ok(weather_storage[IdOf(q)])

====
